---- MODULE Spec2Model ----
(***************************************************************************)
(* Model of the URL shortener (roshinisanikop/url_shortener).              *)
(*                                                                         *)
(*   store.go    URLStore: two maps guarded by one sync.RWMutex            *)
(*   handler.go  HandleShorten / HandleRedirect / HandleListURLs           *)
(*   shortener   GenerateShortCode / ValidateURL / NormalizeURL            *)
(*                                                                         *)
(* Strings are TLA+ strings; a character is a string of length one.        *)
(* Every request is served by a goroutine; a goroutine's steps are the     *)
(* lock acquisitions and the reads and writes it performs inside the       *)
(* critical sections of the store.                                         *)
(***************************************************************************)
EXTENDS Integers, Sequences, FiniteSets, TLC

(***************************************************************************)
(* Bounds of the model.                                                    *)
(***************************************************************************)
NumProcs == 2   \* goroutines running concurrently
MaxReqs == 2    \* HTTP requests started in one behaviour of Spec
MaxCalls == 3   \* direct calls of the store started in one behaviour of StoreSpec
MaxSeq == 3     \* requests served one after the other in one behaviour of SeqSpec

Procs == 1..NumProcs

(***************************************************************************)
(* Characters and the string functions of package strings that the code    *)
(* uses.  Ascii lists the printable ASCII characters from 0x20 to 0x7E in  *)
(* order; the three characters a TLA+ string cannot hold (0x22, 0x5C,      *)
(* 0x60) are left as blanks and are not used by any input.                 *)
(***************************************************************************)
Ascii == " ! #$%&'()*+,-./0123456789:;<=>?@ABCDEFGHIJKLMNOPQRSTUVWXYZ[ ]^_ abcdefghijklmnopqrstuvwxyz{|}~"

Char(s, i) == SubSeq(s, i, i)

\* the code of every character, computed once
OrdOf == [c \in {Char(Ascii, i) : i \in 1..Len(Ascii)} |->
             31 + (CHOOSE i \in 1..Len(Ascii) :
                      Char(Ascii, i) = c /\ \A j \in 1..(i - 1) : Char(Ascii, j) # c)]

Ord(c) == OrdOf[c]

Chr(n) == Char(Ascii, n - 31)

HasPrefix(s, prefix) ==
    Len(s) >= Len(prefix) /\ SubSeq(s, 1, Len(prefix)) = prefix

HasSuffix(s, suffix) ==
    Len(s) >= Len(suffix) /\ SubSeq(s, Len(s) - Len(suffix) + 1, Len(s)) = suffix

TrimPrefix(s, prefix) ==
    IF HasPrefix(s, prefix) THEN SubSeq(s, Len(prefix) + 1, Len(s)) ELSE s

\* strings.Index: position (from 1) of the first occurrence, 0 when absent
Index(s, sub) ==
    LET hits == {i \in 1..(Len(s) - Len(sub) + 1) : SubSeq(s, i, i + Len(sub) - 1) = sub}
    IN  IF hits = {} THEN 0 ELSE CHOOSE i \in hits : \A j \in hits : i <= j

\* strings.LastIndex: position (from 1) of the last occurrence, 0 when absent
LastIndex(s, sub) ==
    LET hits == {i \in 1..(Len(s) - Len(sub) + 1) : SubSeq(s, i, i + Len(sub) - 1) = sub}
    IN  IF hits = {} THEN 0 ELSE CHOOSE i \in hits : \A j \in hits : i >= j

LowerChar(c) ==
    IF Ord(c) >= Ord("A") /\ Ord(c) <= Ord("Z") THEN Chr(Ord(c) + 32) ELSE c

RECURSIVE ToLower(_)
ToLower(s) ==
    IF s = "" THEN "" ELSE LowerChar(Char(s, 1)) \o ToLower(SubSeq(s, 2, Len(s)))

\* strings.TrimRight(s, "/")
RECURSIVE TrimRightSlash(_)
TrimRightSlash(s) ==
    IF s # "" /\ Char(s, Len(s)) = "/"
    THEN TrimRightSlash(SubSeq(s, 1, Len(s) - 1))
    ELSE s

\* strings.Split(s, ":")[0]
SplitColonFirst(s) ==
    IF Index(s, ":") = 0 THEN s ELSE SubSeq(s, 1, Index(s, ":") - 1)

IsLetter(c) ==
    \/ Ord(c) >= Ord("a") /\ Ord(c) <= Ord("z")
    \/ Ord(c) >= Ord("A") /\ Ord(c) <= Ord("Z")

IsDigit(c) == Ord(c) >= Ord("0") /\ Ord(c) <= Ord("9")


(***************************************************************************)
(* net/url, for the URLs of the model: scheme, authority without userinfo, *)
(* and a path; no query, fragment, percent-escape or control character,    *)
(* and path characters that url.URL.String writes back unescaped.          *)
(* A parsed URL is a record; err is TRUE when url.Parse returns an error.  *)
(***************************************************************************)
ParseError == [err |-> TRUE, Scheme |-> "", Opaque |-> "", Host |-> "", Path |-> "", OmitHost |-> FALSE]

\* url.getScheme: (scheme, rest) or the error "missing protocol scheme"
RECURSIVE getScheme(_, _)
getScheme(rawURL, i) ==
    IF i > Len(rawURL) THEN [err |-> FALSE, scheme |-> "", rest |-> rawURL]
    ELSE LET c == Char(rawURL, i) IN
         IF IsLetter(c) THEN getScheme(rawURL, i + 1)
         ELSE IF IsDigit(c) \/ c \in {"+", "-", "."}
              THEN IF i = 1 THEN [err |-> FALSE, scheme |-> "", rest |-> rawURL]
                            ELSE getScheme(rawURL, i + 1)
         ELSE IF c = ":"
              THEN IF i = 1 THEN [err |-> TRUE, scheme |-> "", rest |-> ""]
                            ELSE [err |-> FALSE, scheme |-> SubSeq(rawURL, 1, i - 1),
                                  rest |-> SubSeq(rawURL, i + 1, Len(rawURL))]
         ELSE [err |-> FALSE, scheme |-> "", rest |-> rawURL]

\* url.validOptionalPort: "" or ":" followed by digits
validOptionalPort(port) ==
    \/ port = ""
    \/ /\ Char(port, 1) = ":"
       /\ \A i \in 2..Len(port) : IsDigit(Char(port, i))

\* the characters url.unescape accepts unescaped in a host
HostChar(c) ==
    IsLetter(c) \/ IsDigit(c)
      \/ c \in {"-", "_", ".", "~", "!", "$", "&", "'", "(", ")", "*", "+", ",", ";", "=", ":", "[", "]", "<", ">"}

\* url.parseHost: TRUE when the host is accepted
parseHostOK(host) ==
    /\ IF HasPrefix(host, "[")
       THEN /\ LastIndex(host, "]") # 0
            /\ validOptionalPort(SubSeq(host, LastIndex(host, "]") + 1, Len(host)))
       ELSE LastIndex(host, ":") # 0
                => validOptionalPort(SubSeq(host, LastIndex(host, ":"), Len(host)))
    /\ \A i \in 1..Len(host) : HostChar(Char(host, i))

\* url.parse, after the scheme and the checks on the rest: the authority "//host"
\* up to the next "/", and the path
parseAuthority(scheme, a, cut) ==
    IF parseHostOK(IF cut = 0 THEN a ELSE SubSeq(a, 1, cut - 1))
    THEN [err |-> FALSE, Scheme |-> scheme, Opaque |-> "",
          Host |-> IF cut = 0 THEN a ELSE SubSeq(a, 1, cut - 1),
          Path |-> IF cut = 0 THEN "" ELSE SubSeq(a, cut, Len(a)), OmitHost |-> FALSE]
    ELSE ParseError

\* url.parse, after getScheme returned scheme (lowercased) and rest; slash is
\* strings.HasPrefix(rest, "/")
parseRest(scheme, rest, slash, viaRequest) ==
    IF ~slash /\ scheme # ""
    THEN [err |-> FALSE, Scheme |-> scheme, Opaque |-> rest, Host |-> "", Path |-> "", OmitHost |-> FALSE]
    ELSE IF ~slash /\ viaRequest THEN ParseError
    ELSE IF ~slash /\ Index(SplitColonFirst(rest), "/") = 0 /\ Index(rest, ":") # 0
    THEN ParseError   \* first path segment in URL cannot contain colon
    ELSE IF (scheme # "" \/ (~viaRequest /\ ~HasPrefix(rest, "///"))) /\ HasPrefix(rest, "//")
    THEN parseAuthority(scheme, SubSeq(rest, 3, Len(rest)), Index(SubSeq(rest, 3, Len(rest)), "/"))
    ELSE [err |-> FALSE, Scheme |-> scheme, Opaque |-> "", Host |-> "", Path |-> rest,
          OmitHost |-> (scheme # "" /\ slash)]

\* url.parse, after getScheme returned gs
parseScheme(gs, viaRequest) ==
    IF gs.err THEN ParseError
    ELSE parseRest(ToLower(gs.scheme), gs.rest, HasPrefix(gs.rest, "/"), viaRequest)

\* url.parse(rawURL, viaRequest)
parse(rawURL, viaRequest) ==
    IF rawURL = "" /\ viaRequest THEN ParseError
    ELSE parseScheme(getScheme(rawURL, 1), viaRequest)

\* url.Parse
Parse(rawURL) == parse(rawURL, FALSE)

\* url.ParseRequestURI
ParseRequestURI(rawURL) == parse(rawURL, TRUE)

\* (*url.URL).String, the parts before the path: scheme, "//" host, and the
\* "/" put before a relative path after a host
URLPrefix(u) ==
    (IF u.Scheme # "" THEN u.Scheme \o ":" ELSE "")
    \o (IF (u.Scheme # "" \/ u.Host # "") /\ ~(u.OmitHost /\ u.Host = "")
        THEN (IF u.Host # "" \/ u.Path # "" THEN "//" ELSE "") \o u.Host
        ELSE "")
    \o (IF u.Path # "" /\ Char(u.Path, 1) # "/" /\ u.Host # "" THEN "/" ELSE "")

\* (*url.URL).String, the path: "./" goes before a first segment with a colon
\* when nothing was written before it
URLPath(prefix, path) ==
    (IF prefix = "" /\ Index(path, ":") # 0
           /\ (Index(path, "/") = 0 \/ Index(path, ":") < Index(path, "/"))
     THEN "./" ELSE "")
    \o path

\* (*url.URL).String
URLString(u) ==
    IF u.Opaque # "" THEN u.Scheme \o ":" \o u.Opaque
    ELSE URLPrefix(u) \o URLPath(URLPrefix(u), u.Path)

(***************************************************************************)
(* shortener: GenerateShortCode, ValidateURL, NormalizeURL.                *)
(***************************************************************************)
base62Charset == "abcdefghijklmnopqrstuvwxyzABCDEFGHIJKLMNOPQRSTUVWXYZ0123456789"

\* a draw of crypto/rand that returned an error
RandErr == -1

\* mutant of GenerateShortCode: a failed rand.Int leaves '_' at its position
RECURSIVE GenerateShortCode_mark(_, _, _)
GenerateShortCode_mark(src, length, draws) ==
    LET n == IF length <= 0 THEN 6 ELSE length
        b(i) == IF draws[i] = RandErr THEN "_" ELSE Char(base62Charset, draws[i] + 1)
    IN  IF n = 1 THEN b(1)
        ELSE GenerateShortCode_mark(src, n - 1, draws) \o b(n)

\* mutant of GenerateShortCode: the first symbol is computed from src
RECURSIVE GenerateShortCode_src(_, _, _)
GenerateShortCode_src(src, length, draws) ==
    LET n == IF length <= 0 THEN 6 ELSE length
        b(i) == IF draws[i] = RandErr THEN "a" ELSE Char(base62Charset, draws[i] + 1)
    IN  IF n = 1 THEN Char(base62Charset, (Len(src) % 62) + 1)
        ELSE GenerateShortCode_src(src, n - 1, draws) \o b(n)

\* GenerateShortCode(src, length); draws[i] is the result of the i-th call
\* of rand.Int: a number in 0..61, or RandErr.
RECURSIVE GenerateShortCode(_, _, _)
GenerateShortCode(src, length, draws) ==
    LET n == IF length <= 0 THEN 6 ELSE length
        b(i) == IF draws[i] = RandErr THEN "a" ELSE Char(base62Charset, draws[i] + 1)
    IN  IF n = 1 THEN b(1)
        ELSE GenerateShortCode(src, n - 1, draws) \o b(n)

\* ValidateURL, lines 41-42: the scheme test
validScheme(scheme) == scheme = "http" \/ scheme = "https"

\* ValidateURL, lines 38-42: the result of url.ParseRequestURI
validParsed(parsed) == ~parsed.err /\ validScheme(ToLower(parsed.Scheme))

ValidateURL(u) == u # "" /\ validParsed(ParseRequestURI(u))

\* NormalizeURL, lines 57-61: the host (lowercased) without a default port
stripDefaultPort(scheme, host) ==
    IF \/ scheme = "http" /\ HasSuffix(host, ":80")
       \/ scheme = "https" /\ HasSuffix(host, ":443")
    THEN SplitColonFirst(host)
    ELSE host

\* NormalizeURL, lines 63-65
trimPath(path) == IF path # "/" THEN TrimRightSlash(path) ELSE path

\* NormalizeURL, lines 50-67: the result of url.Parse
normalizeParsed(parsed) ==
    IF parsed.err THEN [err |-> TRUE, url |-> ""]
    ELSE [err |-> FALSE,
          url |-> URLString([parsed EXCEPT !.Host = stripDefaultPort(parsed.Scheme, ToLower(parsed.Host)),
                                           !.Path = trimPath(parsed.Path)])]

\* NormalizeURL: [err, url]
NormalizeURL(u) == normalizeParsed(Parse(u))

(***************************************************************************)
(* handler: isValidShortCode.                                              *)
(***************************************************************************)
\* mutant of isValidShortCode: the upper length bound is off by one
isValidShortCode_short(code) ==
    /\ ~(Len(code) < 3 \/ Len(code) >= 20)
    /\ \A i \in 1..Len(code) :
          LET char == Ord(Char(code, i)) IN
          \/ char >= Ord("a") /\ char <= Ord("z")
          \/ char >= Ord("A") /\ char <= Ord("Z")
          \/ char >= Ord("0") /\ char <= Ord("9")
          \/ Char(code, i) = "-" \/ Char(code, i) = "_"

\* isValidShortCode without the length test of lines 194-196
isValidShortCode_long(code) ==
    \A i \in 1..Len(code) :
        LET char == Ord(Char(code, i)) IN
        \/ char >= Ord("a") /\ char <= Ord("z")
        \/ char >= Ord("A") /\ char <= Ord("Z")
        \/ char >= Ord("0") /\ char <= Ord("9")
        \/ Char(code, i) = "-" \/ Char(code, i) = "_"

isValidShortCode(code) ==
    /\ ~(Len(code) < 3 \/ Len(code) > 20)
    /\ \A i \in 1..Len(code) :
          LET char == Ord(Char(code, i)) IN
          \/ char >= Ord("a") /\ char <= Ord("z")
          \/ char >= Ord("A") /\ char <= Ord("Z")
          \/ char >= Ord("0") /\ char <= Ord("9")
          \/ Char(code, i) = "-" \/ Char(code, i) = "_"


(***************************************************************************)
(* Inputs of the requests.                                                 *)
(***************************************************************************)
\* request bodies' "url"
RawURLs == {"https://EXAMPLE.com/a/", "https://example.com/a", "https://example.com:443/a",
            "http://b.io:80", "http://b.io", "ftp://b.io"}

\* request bodies' "url" of the requests served one after the other
SeqRawURLs == RawURLs \cup {"http://c.io/"}

\* request bodies' "url" with a bracketed IPv6 host, with and without the
\* default port of the scheme
HostRawURLs == {"http://[::1]:80/a", "http://[::1]/a"}

\* request bodies' "custom_code" ("" is no custom code)
CustomCodes == {"", "ab", "x1y", "a@c", "shorten", "a-_Z09azAZ0123456789", "a-_Z09azAZ01234567890"}

\* results of the six calls of rand.Int of one GenerateShortCode call
RandDraws == {<<0, 0, 0, 0, 0, 0>>, <<0, 0, 0, 0, 0, 1>>,
              <<RandErr, RandErr, RandErr, RandErr, RandErr, RandErr>>}

\* paths of GET requests
Paths == {"/x1y", "/aaaaaa", "/shorten", "/"}

\* arguments of direct calls of the store
StoreCodes == {"x1y", "aaaaaa"}
\* the requests of LiveSpec
LiveURLs == {"https://example.com/a", "http://b.io"}
LiveCodes == {"", "x1y", "a@c"}
LivePaths == {"/x1y", "/aaaaaa"}

StoreURLs == {"https://example.com/a", "http://b.io"}

\* handler.go:86
maxAttempts == 10

\* the pure functions on the inputs of the model, computed once
validURL == [u \in SeqRawURLs \cup HostRawURLs |-> ValidateURL(u)]
normalizedURL == [u \in SeqRawURLs \cup HostRawURLs |-> NormalizeURL(u)]
validShortCode == [c \in CustomCodes |-> isValidShortCode(c)]
generated == [d \in RandDraws |-> GenerateShortCode("", 6, d)]

\* the canonical URLs and the codes the inputs can bring into the store
NormURLs == {normalizedURL[u].url : u \in {r \in SeqRawURLs \cup HostRawURLs : validURL[r]}} \cup StoreURLs
GenCodes == {generated[d] : d \in RandDraws}

\* the draws of a call of GenerateShortCode when every rand.Int returns an error
FailedDraws == {d \in RandDraws : \A i \in DOMAIN d : d[i] = RandErr}
AllCodes == GenCodes \cup {c \in CustomCodes : c # ""} \cup StoreCodes
                     \cup {TrimPrefix(q, "/") : q \in Paths}

(***************************************************************************)
(* State.                                                                  *)
(*   urls, reverse   URLStore.urls and URLStore.reverse; a *URLMapping is  *)
(*                   the key of its record, which is never replaced        *)
(*   readers, writer URLStore.mu: the goroutines holding the read lock,    *)
(*                   and the goroutine holding the write lock (0: none)    *)
(*   now             the clock read by time.Now()                          *)
(*   pc, req, loc    per goroutine: position, the request's kind, path and *)
(*                   custom code, local variables (GenerateShortCode does  *)
(*                   not read its src argument, so the raw URL is not kept *)
(*                   once it has been normalized)                          *)
(*   resp            per goroutine: the response to its last request       *)
(*   nreq            requests (direct calls, in StoreSpec) started so far  *)
(*   returned        history: per canonical URL, the codes that 201        *)
(*                   responses of HandleShorten carried                    *)
(*   raced           history: canonical URLs for which a Shorten request   *)
(*                   started while another one for it was in flight        *)
(*   resolved        history: per code, the 301 responses of HandleRedirect*)
(*   incremented     history: per code, the calls of IncrementClicks that  *)
(*                   found the code and have returned                      *)
(*   alone           history, per goroutine: no other request has been in  *)
(*                   flight since its request arrived                      *)
(*   raw             history, per goroutine: the "url" of the request body *)
(*                   as sent, kept for the requests of SeqSpec             *)
(*   origin          history, per goroutine whose Shorten request was      *)
(*                   answered 201: "reused" when the code came from the    *)
(*                   dedup lookup, "created" when the request saved it     *)
(*   early           history, per goroutine: its Shorten request arrived   *)
(*                   before any Save for its URL had completed             *)
(*   instant         history, per goroutine that GetAll has returned to:   *)
(*                   the contents the store has had, from the return of    *)
(*                   GetAll on, while it held exactly the records GetAll   *)
(*                   returned                                              *)
(***************************************************************************)
VARIABLES urls, reverse, readers, writer, now, pc, req, loc, resp, nreq,
          returned, raced, resolved, incremented, alone, raw, instant, origin, early,
          call, source

vars == <<urls, reverse, readers, writer, now, pc, req, loc, resp, nreq,
          returned, raced, resolved, incremented, alone, raw, instant, origin, early,
          call, source>>

NoReq == [kind |-> "none", CustomCode |-> "", Path |-> ""]
NoLoc == [normalized |-> "", shortCode |-> "", i |-> 0, clicks |-> 0, mappings |-> <<>>,
          encoded |-> <<>>]
NoResp == [status |-> 0, error |-> "", short_code |-> "", original_url |-> "", urls |-> <<>>]

\* NewURLStore, NewHandler, and the server before the first request
Start ==
    /\ urls = <<>>
    /\ reverse = <<>>
    /\ readers = {}
    /\ writer = 0
    /\ now = 0
    /\ pc = [p \in Procs |-> "idle"]
    /\ req = [p \in Procs |-> NoReq]
    /\ loc = [p \in Procs |-> NoLoc]
    /\ resp = [p \in Procs |-> NoResp]
    /\ nreq = 0
    /\ returned = [u \in NormURLs |-> {}]
    /\ raced = {}
    /\ resolved = [c \in AllCodes |-> 0]
    /\ incremented = [c \in AllCodes |-> 0]
    /\ alone = [p \in Procs |-> FALSE]
    /\ raw = [p \in Procs |-> ""]
    /\ instant = [p \in Procs |-> {}]
    /\ origin = [p \in Procs |-> ""]
    /\ early = [p \in Procs |-> FALSE]

\* no call of a function outside the handlers
NoResult == [err |-> FALSE, url |-> ""]
NoCall == [fn |-> "none", u |-> "", length |-> 0, draws |-> <<>>, n |-> 0,
           first |-> NoResult, last |-> NoResult, code |-> ""]

\* the server before the first request, with a working crypto/rand
Init ==
    /\ Start
    /\ call = NoCall
    /\ source = "ok"

\* the draws crypto/rand can give to one call of GenerateShortCode: source is
\* "failed" when rand.Reader fails on every read
Draws == IF source = "failed" THEN FailedDraws ELSE RandDraws

(***************************************************************************)
(* sync.RWMutex.                                                           *)
(***************************************************************************)
\* mutant of CanLock: Lock does not wait
CanLock_free == TRUE

\* Lock returns only when no goroutine holds the lock
CanLock == writer = 0 /\ readers = {}

\* mutant of Unlock: the write lock is not released
Unlock_missing(p) == p

\* the holder of the write lock once goroutine p has called Unlock: none
Unlock(p) == 0

\* mutant of CanRLock: RLock does not wait
CanRLock_free == TRUE

\* RLock returns only when no goroutine holds the write lock
CanRLock == writer = 0

(***************************************************************************)
(* Responses.                                                              *)
(***************************************************************************)
respondSuccess(shortCode, originalURL) ==
    [NoResp EXCEPT !.status = 201, !.short_code = shortCode, !.original_url = originalURL]

respondError(message, statusCode) ==
    [NoResp EXCEPT !.status = statusCode, !.error = message]

NotFound == [NoResp EXCEPT !.status = 404]

Redirect(url) == [NoResp EXCEPT !.status = 301, !.original_url = url]

\* the handler of goroutine p writes response r and returns
Finish(p, r) ==
    /\ pc' = [pc EXCEPT ![p] = "done"]
    /\ loc' = [loc EXCEPT ![p] = NoLoc]
    /\ resp' = [resp EXCEPT ![p] = r]
    /\ origin' = IF req[p].kind = "shorten" /\ r.status = 201
                 THEN [origin EXCEPT ![p] = IF pc[p] = "GetByOriginalURL_cs" THEN "reused" ELSE "created"]
                 ELSE origin
    /\ returned' = IF req[p].kind = "shorten" /\ r.status = 201
                   THEN [returned EXCEPT ![loc[p].normalized] = @ \cup {r.short_code}]
                   ELSE returned
    /\ resolved' = IF req[p].kind = "redirect" /\ r.status = 301
                   THEN [resolved EXCEPT ![loc[p].shortCode] = @ + 1]
                   ELSE resolved
    /\ incremented' = IF pc[p] = "IncrementClicks_write"
                      THEN [incremented EXCEPT ![loc[p].shortCode] = @ + 1]
                      ELSE incremented

Goto(p, label, l) ==
    /\ pc' = [pc EXCEPT ![p] = label]
    /\ loc' = [loc EXCEPT ![p] = l]
    /\ UNCHANGED <<resp, returned, origin, resolved, incremented>>

InFlight(u) == {q \in Procs : pc[q] \notin {"idle", "done"} /\ req[q].kind = "shorten" /\ loc[q].normalized = u}

\* no handler is running
Quiescent == \A p \in Procs : pc[p] \in {"idle", "done"}


(***************************************************************************)
(* store.go: the methods of URLStore, executed by goroutine p with the     *)
(* arguments in loc[p].  A read method is two steps (RLock; body and       *)
(* RUnlock), a write method one step per access to the maps inside the     *)
(* critical section.  A step that leaves a method continues with the       *)
(* caller's code up to its next call of the store.                         *)
(***************************************************************************)
\* mutants of SaveConflict: the check is missing; the check reads the wrong map
SaveConflict_never(shortCode) == FALSE

SaveConflict_reverse(shortCode) == shortCode \in DOMAIN reverse

\* store.go:37
SaveConflict(shortCode) == shortCode \in DOMAIN urls

\* mutant of NewMapping: the record starts with one click
NewMapping_clicked(shortCode, originalURL) ==
    [ShortCode |-> shortCode, OriginalURL |-> originalURL, CreatedAt |-> now, Clicks |-> 1]

\* store.go:41-46
NewMapping(shortCode, originalURL) ==
    [ShortCode |-> shortCode, OriginalURL |-> originalURL, CreatedAt |-> now, Clicks |-> 0]

\* store.go:59-64: the pointer to a record is its key
Get(shortCode) ==
    IF shortCode \notin DOMAIN urls
    THEN [mapping |-> "", err |-> "short code not found"]
    ELSE [mapping |-> shortCode, err |-> ""]

\* mutant of GetByOriginalURL: the lookup never finds the URL
GetByOriginalURL_miss(originalURL) == [shortCode |-> "", exists |-> FALSE]

\* store.go:82-83
GetByOriginalURL(originalURL) ==
    IF originalURL \in DOMAIN reverse
    THEN [shortCode |-> reverse[originalURL], exists |-> TRUE]
    ELSE [shortCode |-> "", exists |-> FALSE]

\* mutant of Exists: the lookup never finds the code
Exists_never(shortCode) == FALSE

\* store.go:104-105
Exists(shortCode) == shortCode \in DOMAIN urls

\* mutant of Put: an existing entry is kept
Put_keep(m, k, v) == [y \in DOMAIN m \cup {k} |-> IF y \in DOMAIN m THEN m[y] ELSE v]

\* store.go:48-49: map assignment
Put(m, k, v) == [y \in DOMAIN m \cup {k} |-> IF y = k THEN v ELSE m[y]]

\* mutant of AfterSave: the handler answers with the failure also when Save
\* has succeeded
AfterSave_failed(p, err) == Finish(p, respondError("short code already exists", 500))

\* what the caller of Save does with its result
AfterSave(p, err) ==
    IF req[p].kind = "shorten"
    THEN IF err # ""
         THEN Finish(p, respondError(err, 500))
         ELSE Finish(p, respondSuccess(loc[p].shortCode, loc[p].normalized))
    ELSE Finish(p, [NoResp EXCEPT !.error = err, !.short_code = loc[p].shortCode,
                                  !.original_url = loc[p].normalized])

\* what the caller of Get does with its result (handler.go:134-141)
AfterGet(p, r) ==
    IF req[p].kind = "redirect"
    THEN IF r.err # ""
         THEN Finish(p, NotFound)
         ELSE Goto(p, "IncrementClicks", loc[p])
    ELSE Finish(p, [NoResp EXCEPT !.error = r.err, !.short_code = r.mapping])

\* mutant of Clicked: the count is written to every record
Clicked_all(m, shortCode, clicks) == [c \in DOMAIN m |-> [m[c] EXCEPT !.Clicks = clicks + 1]]

\* store.go:73: the write of mapping.Clicks++, clicks being the value read
Clicked(m, shortCode, clicks) == [m EXCEPT ![shortCode].Clicks = clicks + 1]

\* what the caller of IncrementClicks does when it returns
AfterIncrementClicks(p) ==
    IF req[p].kind = "redirect"
    THEN Finish(p, Redirect(urls[loc[p].shortCode].OriginalURL))
    ELSE Finish(p, [NoResp EXCEPT !.short_code = loc[p].shortCode])

Save_Lock(p) ==
    /\ pc[p] = "Save"
    /\ CanLock
    /\ writer' = p
    /\ Goto(p, "Save_urls", loc[p])
    /\ UNCHANGED <<urls, reverse, readers, now, req, nreq, raced, early, alone, raw, instant, call, source>>

\* store.go:37-48
Save_urls(p) ==
    /\ pc[p] = "Save_urls"
    /\ IF SaveConflict(loc[p].shortCode)
       THEN /\ writer' = Unlock(p)
            /\ AfterSave(p, "short code already exists")
            /\ UNCHANGED <<urls, now>>
       ELSE /\ urls' = Put(urls, loc[p].shortCode, NewMapping(loc[p].shortCode, loc[p].normalized))
            /\ now' = now + 1
            /\ Goto(p, "Save_reverse", loc[p])
            /\ UNCHANGED writer
    /\ UNCHANGED <<reverse, readers, req, nreq, raced, early, alone, raw, instant, call, source>>

\* store.go:49-51
Save_reverse(p) ==
    /\ pc[p] = "Save_reverse"
    /\ reverse' = Put(reverse, loc[p].normalized, loc[p].shortCode)
    /\ writer' = Unlock(p)
    /\ AfterSave(p, "")
    /\ UNCHANGED <<urls, readers, now, req, nreq, raced, early, alone, raw, instant, call, source>>

Get_RLock(p) ==
    /\ pc[p] = "Get"
    /\ CanRLock
    /\ readers' = readers \cup {p}
    /\ Goto(p, "Get_cs", loc[p])
    /\ UNCHANGED <<urls, reverse, writer, now, req, nreq, raced, early, alone, raw, instant, call, source>>

\* store.go:59-64, handler.go:134-138
Get_Return(p) ==
    /\ pc[p] = "Get_cs"
    /\ readers' = readers \ {p}
    /\ AfterGet(p, Get(loc[p].shortCode))
    /\ UNCHANGED <<urls, reverse, writer, now, req, nreq, raced, early, alone, raw, instant, call, source>>

IncrementClicks_Lock(p) ==
    /\ pc[p] = "IncrementClicks"
    /\ CanLock
    /\ writer' = p
    /\ Goto(p, "IncrementClicks_read", loc[p])
    /\ UNCHANGED <<urls, reverse, readers, now, req, nreq, raced, early, alone, raw, instant, call, source>>

\* store.go:72-73: the lookup, and the read of mapping.Clicks++
IncrementClicks_read(p) ==
    /\ pc[p] = "IncrementClicks_read"
    /\ IF loc[p].shortCode \in DOMAIN urls
       THEN /\ Goto(p, "IncrementClicks_write",
                    [loc[p] EXCEPT !.clicks = urls[loc[p].shortCode].Clicks])
            /\ UNCHANGED writer
       ELSE /\ writer' = Unlock(p)
            /\ AfterIncrementClicks(p)
    /\ UNCHANGED <<urls, reverse, readers, now, req, nreq, raced, early, alone, raw, instant, call, source>>

\* the codes of the records GetAll returned to goroutine q
Returned(q) == {loc[q].mappings[k] : k \in 1..Len(loc[q].mappings)}

\* store.go:73-75: the write of mapping.Clicks++
IncrementClicks_write(p) ==
    /\ pc[p] = "IncrementClicks_write"
    /\ urls' = Clicked(urls, loc[p].shortCode, loc[p].clicks)
    /\ writer' = Unlock(p)
    /\ AfterIncrementClicks(p)
    /\ instant' = [q \in Procs |->
                      IF pc[q] = "Encode" /\ Returned(q) = DOMAIN urls
                      THEN instant[q] \cup {urls'} ELSE instant[q]]
    /\ UNCHANGED <<reverse, readers, now, req, nreq, raced, early, alone, raw, call, source>>

GetByOriginalURL_RLock(p) ==
    /\ pc[p] = "GetByOriginalURL"
    /\ CanRLock
    /\ readers' = readers \cup {p}
    /\ Goto(p, "GetByOriginalURL_cs", loc[p])
    /\ UNCHANGED <<urls, reverse, writer, now, req, nreq, raced, early, alone, raw, instant, call, source>>

\* store.go:82-83, handler.go:66-88
GetByOriginalURL_Return(p) ==
    /\ pc[p] = "GetByOriginalURL_cs"
    /\ readers' = readers \ {p}
    /\ \E draws \in Draws :
          IF GetByOriginalURL(loc[p].normalized).exists
          THEN Finish(p, respondSuccess(GetByOriginalURL(loc[p].normalized).shortCode, loc[p].normalized))
          ELSE IF req[p].CustomCode # ""
          THEN IF ~validShortCode[req[p].CustomCode]
               THEN Finish(p, respondError("Invalid custom code. Use only alphanumeric characters", 400))
               ELSE Goto(p, "Exists", [loc[p] EXCEPT !.shortCode = req[p].CustomCode])
          ELSE Goto(p, "Exists", [loc[p] EXCEPT !.shortCode = generated[draws],
                                                !.i = 0])
    /\ UNCHANGED <<urls, reverse, writer, now, req, nreq, raced, early, alone, raw, instant, call, source>>

Exists_RLock(p) ==
    /\ pc[p] = "Exists"
    /\ CanRLock
    /\ readers' = readers \cup {p}
    /\ Goto(p, "Exists_cs", loc[p])
    /\ UNCHANGED <<urls, reverse, writer, now, req, nreq, raced, early, alone, raw, instant, call, source>>

\* mutant of LastAttempt: the loop gives up one attempt early
LastAttempt_early(i) == i = maxAttempts - 2

\* handler.go:92
\* mutant of LastAttempt: the loop gives up one attempt late
LastAttempt_late(i) == i = maxAttempts

LastAttempt(i) == i = maxAttempts - 1

\* store.go:104-105, handler.go:79-97
Exists_Return(p) ==
    /\ pc[p] = "Exists_cs"
    /\ readers' = readers \ {p}
    /\ \E draws \in Draws :
          IF req[p].CustomCode # ""
          THEN IF Exists(loc[p].shortCode)
               THEN Finish(p, respondError("Custom code already exists", 409))
               ELSE Goto(p, "Save", loc[p])
          ELSE IF ~Exists(loc[p].shortCode)
               THEN Goto(p, "Save", loc[p])
               ELSE IF LastAttempt(loc[p].i)
               THEN Finish(p, respondError("Failed to generate unique short code", 500))
               ELSE Goto(p, "Exists", [loc[p] EXCEPT !.shortCode = generated[draws],
                                                     !.i = loc[p].i + 1])
    /\ UNCHANGED <<urls, reverse, writer, now, req, nreq, raced, early, alone, raw, instant, call, source>>

GetAll_RLock(p) ==
    /\ pc[p] = "GetAll"
    /\ CanRLock
    /\ readers' = readers \cup {p}
    /\ Goto(p, "GetAll_cs", loc[p])
    /\ UNCHANGED <<urls, reverse, writer, now, req, nreq, raced, early, alone, raw, instant, call, source>>

\* the orders in which a range over a map can visit its keys
Orders(S) == {f \in [1..Cardinality(S) -> S] : \A a, b \in 1..Cardinality(S) : f[a] = f[b] => a = b}

\* store.go:91-96
GetAll_Return(p) ==
    /\ pc[p] = "GetAll_cs"
    /\ readers' = readers \ {p}
    /\ \E mappings \in Orders(DOMAIN urls) :
          Goto(p, "Encode", [loc[p] EXCEPT !.mappings = mappings])
    /\ instant' = [instant EXCEPT ![p] = {urls}]
    /\ UNCHANGED <<urls, reverse, writer, now, req, nreq, raced, early, alone, raw, call, source>>

(***************************************************************************)
(* handler.go: the handlers, from the arrival of a request to the first    *)
(* call of the store.  A request is a POST of /shorten with a body that    *)
(* decodes, or a GET of a path: req.kind is "shorten" for the POST, "list" *)
(* for a GET of /api/urls and "redirect" for a GET of any other path.      *)
(***************************************************************************)
\* a request arrives at goroutine p: the requests in flight are no longer alone
Arrive(p) ==
    alone' = [q \in Procs |->
                 IF q = p THEN \A o \in Procs \ {p} : pc[o] \in {"idle", "done"}
                 ELSE IF pc[q] \in {"idle", "done"} THEN alone[q]
                 ELSE FALSE]

\* handler.go:39-63: the request body {url, custom_code} arrives at goroutine p
ShortenArrive(p, url, custom) ==
    /\ req' = [req EXCEPT ![p] = [kind |-> "shorten", CustomCode |-> custom, Path |-> "/shorten"]]
    /\ Arrive(p)
    /\ IF ~validURL[url]
       THEN /\ resp' = [resp EXCEPT ![p] = respondError("Invalid URL format. URL must start with http:// or https://", 400)]
            /\ pc' = [pc EXCEPT ![p] = "done"]
            /\ UNCHANGED <<loc, raced, early>>
       ELSE IF normalizedURL[url].err
       THEN /\ resp' = [resp EXCEPT ![p] = respondError("Invalid URL", 400)]
            /\ pc' = [pc EXCEPT ![p] = "done"]
            /\ UNCHANGED <<loc, raced, early>>
       ELSE /\ pc' = [pc EXCEPT ![p] = "GetByOriginalURL"]
            /\ loc' = [loc EXCEPT ![p] = [NoLoc EXCEPT !.normalized = normalizedURL[url].url]]
            /\ raced' = IF InFlight(normalizedURL[url].url) # {}
                        THEN raced \cup {normalizedURL[url].url}
                        ELSE raced
            /\ early' = [early EXCEPT ![p] = normalizedURL[url].url \notin DOMAIN reverse]
            /\ UNCHANGED resp
    /\ nreq' = nreq + 1
    /\ UNCHANGED <<urls, reverse, readers, writer, now, returned, origin, resolved, incremented, instant, call, source>>

\* part_001:18-20: the handler http.ServeMux picks for a path
route(path) ==
    IF path = "/shorten" THEN "HandleShorten"
    ELSE IF path = "/api/urls" THEN "HandleListURLs"
    ELSE "HandleRedirect"

\* handler.go:40-43: a GET of path arrives at goroutine p and is routed to
\* HandleShorten, which serves POST only
ShortenNotPost(p, path) ==
    /\ req' = [req EXCEPT ![p] = [kind |-> "redirect", CustomCode |-> "", Path |-> path]]
    /\ Arrive(p)
    /\ resp' = [resp EXCEPT ![p] = respondError("Method not allowed", 405)]
    /\ pc' = [pc EXCEPT ![p] = "done"]
    /\ nreq' = nreq + 1
    /\ UNCHANGED <<urls, reverse, readers, writer, now, loc, returned, origin, raced, early, resolved, incremented, instant, call, source>>

HandleShorten(p) ==
    /\ pc[p] = "idle"
    /\ nreq < MaxReqs
    /\ \/ \E url \in RawURLs, custom \in CustomCodes : ShortenArrive(p, url, custom)
       \/ \E path \in Paths : route(path) = "HandleShorten" /\ ShortenNotPost(p, path)
    /\ UNCHANGED raw

\* a request without custom code that arrives when no request is in flight
SeqShorten(p) ==
    /\ pc[p] = "idle"
    /\ Quiescent
    /\ nreq < MaxSeq
    /\ \E url \in SeqRawURLs :
          /\ ShortenArrive(p, url, "")
          /\ raw' = [raw EXCEPT ![p] = url]

\* a request without custom code that arrives when no request is in flight,
\* for a URL of any host form
FormShorten(p) ==
    /\ pc[p] = "idle"
    /\ Quiescent
    /\ nreq < MaxSeq
    /\ \E url \in SeqRawURLs \cup HostRawURLs :
          /\ ShortenArrive(p, url, "")
          /\ raw' = [raw EXCEPT ![p] = url]

\* handler.go:109-131: a GET of path arrives at goroutine p
RedirectArrive(p, path, shortCode) ==
    /\ req' = [req EXCEPT ![p] = [kind |-> "redirect", CustomCode |-> "", Path |-> path]]
    /\ Arrive(p)
    /\ IF shortCode = "" \/ HasPrefix(shortCode, "api/") \/ shortCode = "shorten"
       THEN /\ resp' = [resp EXCEPT ![p] = IF shortCode = ""
                                           THEN [NoResp EXCEPT !.status = 200]
                                           ELSE NotFound]
            /\ pc' = [pc EXCEPT ![p] = "done"]
            /\ UNCHANGED loc
       ELSE /\ pc' = [pc EXCEPT ![p] = "Get"]
            /\ loc' = [loc EXCEPT ![p] = [NoLoc EXCEPT !.shortCode = shortCode]]
            /\ UNCHANGED resp
    /\ nreq' = nreq + 1
    /\ UNCHANGED <<urls, reverse, readers, writer, now, returned, origin, raced, early, resolved, incremented, raw, instant, call, source>>

HandleRedirect(p) ==
    /\ pc[p] = "idle"
    /\ nreq < MaxReqs
    /\ \E path \in Paths :
          route(path) = "HandleRedirect" /\ RedirectArrive(p, path, TrimPrefix(path, "/"))

\* handler.go:148-154: a GET of /api/urls arrives at goroutine p
ListArrive(p) ==
    /\ req' = [req EXCEPT ![p] = [kind |-> "list", CustomCode |-> "", Path |-> "/api/urls"]]
    /\ pc' = [pc EXCEPT ![p] = "GetAll"]
    /\ Arrive(p)
    /\ UNCHANGED <<urls, reverse, readers, writer, now, loc, resp, returned, origin, raced, early, resolved, incremented, raw, instant, call, source>>

HandleListURLs(p) ==
    /\ pc[p] = "idle"
    /\ nreq < MaxReqs
    /\ ListArrive(p)
    /\ nreq' = nreq + 1

\* a list request next to direct calls of the store: one at a time
ListRequest(p) ==
    /\ pc[p] = "idle"
    /\ \A q \in Procs : req[q].kind # "list"
    /\ ListArrive(p)
    /\ UNCHANGED nreq

\* handler.go:156-160: the records encoded so far and the record behind the
\* k-th pointer, as it is when the encoder reads it
Encoded(p, k) ==
    IF k <= Len(loc[p].mappings)
    THEN Append(loc[p].encoded, urls[loc[p].mappings[k]])
    ELSE loc[p].encoded

\* handler.go:156-160: the encoder reads the records behind the pointers one
\* after the other, without the lock; after the last one the response is written
EncodeRecord(p, k) ==
    IF k < Len(loc[p].mappings)
    THEN /\ Goto(p, "Encode", [loc[p] EXCEPT !.encoded = Encoded(p, k)])
         /\ UNCHANGED instant
    ELSE /\ Finish(p, [NoResp EXCEPT !.status = 200, !.urls = Encoded(p, k)])
         /\ instant' = [instant EXCEPT ![p] = {}]

Encode(p) ==
    /\ pc[p] = "Encode"
    /\ EncodeRecord(p, Len(loc[p].encoded) + 1)
    /\ UNCHANGED <<urls, reverse, readers, writer, now, req, nreq, raced, early, alone, raw, call, source>>

\* the response has been written: the goroutine ends, p can serve again
Return(p) ==
    /\ pc[p] = "done"
    /\ pc' = [pc EXCEPT ![p] = "idle"]
    /\ req' = [req EXCEPT ![p] = NoReq]
    /\ resp' = [resp EXCEPT ![p] = NoResp]
    /\ alone' = [alone EXCEPT ![p] = FALSE]
    /\ raw' = [raw EXCEPT ![p] = ""]
    /\ origin' = [origin EXCEPT ![p] = ""]
    /\ early' = [early EXCEPT ![p] = FALSE]
    /\ UNCHANGED <<urls, reverse, readers, writer, now, loc, nreq, returned, raced, resolved, incremented, instant, call, source>>

(***************************************************************************)
(* Direct calls of the store's methods Save, Get and IncrementClicks.      *)
(***************************************************************************)
CallSave(p) ==
    /\ pc[p] = "idle"
    /\ nreq < MaxCalls
    /\ \E shortCode \in StoreCodes, originalURL \in StoreURLs :
          /\ req' = [req EXCEPT ![p] = [kind |-> "Save", CustomCode |-> "", Path |-> ""]]
          /\ loc' = [loc EXCEPT ![p] = [NoLoc EXCEPT !.shortCode = shortCode, !.normalized = originalURL]]
          /\ Arrive(p)
    /\ pc' = [pc EXCEPT ![p] = "Save"]
    /\ nreq' = nreq + 1
    /\ UNCHANGED <<urls, reverse, readers, writer, now, resp, returned, origin, raced, early, resolved, incremented, raw, instant, call, source>>

CallGet(p) ==
    /\ pc[p] = "idle"
    /\ nreq < MaxCalls
    /\ \E shortCode \in StoreCodes :
          /\ req' = [req EXCEPT ![p] = [kind |-> "Get", CustomCode |-> "", Path |-> ""]]
          /\ loc' = [loc EXCEPT ![p] = [NoLoc EXCEPT !.shortCode = shortCode]]
          /\ Arrive(p)
    /\ pc' = [pc EXCEPT ![p] = "Get"]
    /\ nreq' = nreq + 1
    /\ UNCHANGED <<urls, reverse, readers, writer, now, resp, returned, origin, raced, early, resolved, incremented, raw, instant, call, source>>

CallIncrementClicks(p) ==
    /\ pc[p] = "idle"
    /\ nreq < MaxCalls
    /\ \E shortCode \in StoreCodes :
          /\ req' = [req EXCEPT ![p] = [kind |-> "IncrementClicks", CustomCode |-> "", Path |-> ""]]
          /\ loc' = [loc EXCEPT ![p] = [NoLoc EXCEPT !.shortCode = shortCode]]
          /\ Arrive(p)
    /\ pc' = [pc EXCEPT ![p] = "IncrementClicks"]
    /\ nreq' = nreq + 1
    /\ UNCHANGED <<urls, reverse, readers, writer, now, resp, returned, origin, raced, early, resolved, incremented, raw, instant, call, source>>

(***************************************************************************)
(* Specifications.  Spec is the server that main wires up: every request   *)
(* enters through a handler.  StoreSpec is the URLStore alone: goroutines  *)
(* call Save, Get and IncrementClicks, the methods through which the       *)
(* handlers reach the records, with any arguments and in any interleaving. *)
(***************************************************************************)
Next ==
    \E p \in Procs :
        \/ HandleShorten(p)
        \/ GetByOriginalURL_RLock(p)
        \/ GetByOriginalURL_Return(p)
        \/ Exists_RLock(p)
        \/ Exists_Return(p)
        \/ Save_Lock(p)
        \/ Save_urls(p)
        \/ Save_reverse(p)
        \/ HandleRedirect(p)
        \/ Get_RLock(p)
        \/ Get_Return(p)
        \/ IncrementClicks_Lock(p)
        \/ IncrementClicks_read(p)
        \/ IncrementClicks_write(p)
        \/ HandleListURLs(p)
        \/ GetAll_RLock(p)
        \/ GetAll_Return(p)
        \/ Encode(p)
        \/ Return(p)

Spec == Init /\ [][Next]_vars

\* a step of the handler that runs in goroutine p, after its request arrived
Step(p) ==
    \/ GetByOriginalURL_RLock(p)
    \/ GetByOriginalURL_Return(p)
    \/ Exists_RLock(p)
    \/ Exists_Return(p)
    \/ Save_Lock(p)
    \/ Save_urls(p)
    \/ Save_reverse(p)
    \/ Get_RLock(p)
    \/ Get_Return(p)
    \/ IncrementClicks_Lock(p)
    \/ IncrementClicks_read(p)
    \/ IncrementClicks_write(p)
    \/ GetAll_RLock(p)
    \/ GetAll_Return(p)
    \/ Encode(p)

\* LiveSpec: every goroutine serves one request, with the Go scheduler: a
\* goroutine that can take a step, and stays able to, takes it
LiveShorten(p) ==
    /\ pc[p] = "idle"
    /\ \E url \in LiveURLs, custom \in LiveCodes : ShortenArrive(p, url, custom)
    /\ UNCHANGED raw

LiveRedirect(p) ==
    /\ pc[p] = "idle"
    /\ \E path \in LivePaths : RedirectArrive(p, path, TrimPrefix(path, "/"))

LiveList(p) ==
    /\ pc[p] = "idle"
    /\ ListArrive(p)
    /\ nreq' = nreq + 1

LiveNext ==
    \E p \in Procs :
        \/ LiveShorten(p)
        \/ LiveRedirect(p)
        \/ LiveList(p)
        \/ Step(p)

LiveSpec == Init /\ [][LiveNext]_vars /\ \A p \in Procs : WF_vars(Step(p))

StoreNext ==
    \E p \in Procs :
        \/ CallSave(p)
        \/ Save_Lock(p)
        \/ Save_urls(p)
        \/ Save_reverse(p)
        \/ CallGet(p)
        \/ Get_RLock(p)
        \/ Get_Return(p)
        \/ CallIncrementClicks(p)
        \/ IncrementClicks_Lock(p)
        \/ IncrementClicks_read(p)
        \/ IncrementClicks_write(p)
        \/ Return(p)

StoreSpec == Init /\ [][StoreNext]_vars

\* SeqSpec: Shorten requests without custom code, served one after the other
SeqNext ==
    \E p \in Procs :
        \/ SeqShorten(p)
        \/ GetByOriginalURL_RLock(p)
        \/ GetByOriginalURL_Return(p)
        \/ Exists_RLock(p)
        \/ Exists_Return(p)
        \/ Save_Lock(p)
        \/ Save_urls(p)
        \/ Save_reverse(p)
        \/ Return(p)

SeqSpec == Init /\ [][SeqNext]_vars

\* FormSpec: SeqSpec with the URLs of bracketed IPv6 hosts among the requests
FormNext ==
    \E p \in Procs :
        \/ FormShorten(p)
        \/ GetByOriginalURL_RLock(p)
        \/ GetByOriginalURL_Return(p)
        \/ Exists_RLock(p)
        \/ Exists_Return(p)
        \/ Save_Lock(p)
        \/ Save_urls(p)
        \/ Save_reverse(p)
        \/ Return(p)

FormSpec == Init /\ [][FormNext]_vars

\* ListSpec: list requests next to direct calls of Save and IncrementClicks
ListNext ==
    \E p \in Procs :
        \/ ListRequest(p)
        \/ GetAll_RLock(p)
        \/ GetAll_Return(p)
        \/ Encode(p)
        \/ CallSave(p)
        \/ Save_Lock(p)
        \/ Save_urls(p)
        \/ Save_reverse(p)
        \/ CallIncrementClicks(p)
        \/ IncrementClicks_Lock(p)
        \/ IncrementClicks_read(p)
        \/ IncrementClicks_write(p)
        \/ Return(p)

ListSpec == Init /\ [][ListNext]_vars

(***************************************************************************)
(* NormalizeURL and GenerateShortCode called on their own: Init draws the  *)
(* arguments, an action is one call.                                       *)
(***************************************************************************)
\* the variables of the server
server == <<urls, reverse, readers, writer, now, pc, req, loc, resp, nreq,
            returned, raced, resolved, incremented, alone, raw, instant, origin, early>>

\* arguments of NormalizeURL: scheme "://" host path
NormSchemes == {"http", "https", "HTTP"}
NormHosts == {"b.io", "B.io:80", "b.io:443", "b.io:8080", "[::1]", "[::1]:80", "[::1]:443", "[::1"}
NormPaths == {"", "/", "//", "/a", "/a/", "/a//"}
NormInputs == {s \o "://" \o h \o q : s \in NormSchemes, h \in NormHosts, q \in NormPaths}

\* arguments of GenerateShortCode, and the results of its calls of rand.Int
GenSrcs == {"http://b.io", "https://example.com/a"}
GenLengths == {-1, 0, 1, 2, 6}
GenDraws == RandDraws \cup {<<61, RandErr, 25, 26, 51, 52>>, <<RandErr, 1, 2, 3, 4, 5>>}

NormalizeCalls == {[NoCall EXCEPT !.fn = "NormalizeURL", !.u = x] : x \in NormInputs}
GenerateCalls ==
    {[NoCall EXCEPT !.fn = "GenerateShortCode", !.u = x, !.length = l, !.draws = d] :
        x \in GenSrcs, l \in GenLengths, d \in GenDraws}

\* the result of one more NormalizeURL: of the argument, then of the first result
Normalized(c, r) ==
    IF c.n = 0 THEN [c EXCEPT !.n = 1, !.first = r, !.last = r]
               ELSE [c EXCEPT !.n = 2, !.last = r]

\* NormalizeURL(u), then NormalizeURL of its result when it succeeded
CallNormalizeURL ==
    /\ call.fn = "NormalizeURL"
    /\ call.n < 2
    /\ ~call.last.err
    /\ call' = Normalized(call, NormalizeURL(IF call.n = 0 THEN call.u ELSE call.first.url))
    /\ UNCHANGED <<server, source>>

\* GenerateShortCode(src, length)
CallGenerateShortCode ==
    /\ call.fn = "GenerateShortCode"
    /\ call.n = 0
    /\ call' = [call EXCEPT !.n = 1, !.code = GenerateShortCode(call.u, call.length, call.draws)]
    /\ UNCHANGED <<server, source>>

PureInit ==
    /\ Start
    /\ source = "ok"
    /\ call \in NormalizeCalls \cup GenerateCalls

PureNext == CallNormalizeURL \/ CallGenerateShortCode

PureSpec == PureInit /\ [][PureNext]_vars

\* GenSpec: GenerateShortCode called on its own, with a source that works or
\* fails, and the server of SeqSpec with a crypto/rand that fails on every read
GenInit ==
    /\ Start
    /\ source \in {"ok", "failed"}
    /\ call \in IF source = "failed"
                THEN {NoCall} \cup {c \in GenerateCalls : c.draws \in FailedDraws}
                ELSE GenerateCalls

GenNext ==
    \/ CallGenerateShortCode
    \/ call.fn = "none" /\ SeqNext

GenSpec == GenInit /\ [][GenNext]_vars

(***************************************************************************)
(* Vocabulary of the properties.                                           *)
(***************************************************************************)
Done(p) == pc[p] = "done"

\* the codes of the records that hold URL u
RecordsFor(u) == {c \in DOMAIN urls : urls[c].OriginalURL = u}

\* the syntax rule of custom codes: 3 to 20 characters of [A-Za-z0-9_-]
CodeAlphabet ==
    LET a == "ABCDEFGHIJKLMNOPQRSTUVWXYZabcdefghijklmnopqrstuvwxyz0123456789_-"
    IN  {Char(a, i) : i \in 1..Len(a)}

CodeSyntaxOK == [code \in CustomCodes |->
                    /\ Len(code) \in 3..20
                    /\ \A i \in 1..Len(code) : Char(code, i) \in CodeAlphabet]

InvalidCode == respondError("Invalid custom code. Use only alphanumeric characters", 400)

AlreadyExists == respondError("Custom code already exists", 409)

(***************************************************************************)
(* C1.  A record, once saved, stays: in every later state Get finds its    *)
(* code, and its ShortCode, OriginalURL and CreatedAt are what Save wrote; *)
(* only Clicks changes.  A record that appears was written by the          *)
(* goroutine inside Save, with Save's arguments.                           *)
(***************************************************************************)
C1_RecordsPersist ==
    [][/\ \A c \in DOMAIN urls :
             /\ (Get(c).err = "")'
             /\ urls'[c].ShortCode = c
             /\ urls'[c].OriginalURL = urls[c].OriginalURL
             /\ urls'[c].CreatedAt = urls[c].CreatedAt
       /\ \A c \in DOMAIN urls' \ DOMAIN urls :
             /\ writer # 0
             /\ pc[writer] = "Save_urls"
             /\ c = loc[writer].shortCode
             /\ urls'[c].ShortCode = c
             /\ urls'[c].OriginalURL = loc[writer].normalized]_vars

\* the first record is still there after a later Save and a click
C1_Witness ==
    \E c \in DOMAIN urls :
        /\ urls[c].CreatedAt = 0
        /\ urls[c].Clicks > 0
        /\ now >= 2

(***************************************************************************)
(* C2.  In every state that a goroutine can observe (no Save or            *)
(* IncrementClicks is inside its critical section), the two indexes hold   *)
(* the same (code, URL) pairs.                                             *)
(***************************************************************************)
C2_IndexesAgree ==
    writer = 0 =>
        /\ \A c \in DOMAIN urls :
              GetByOriginalURL(urls[c].OriginalURL) = [shortCode |-> c, exists |-> TRUE]
        /\ \A u \in DOMAIN reverse :
              /\ Get(reverse[u]).err = ""
              /\ urls[reverse[u]].OriginalURL = u

(***************************************************************************)
(* C3.  All successful Shorten responses for one canonical URL carry the   *)
(* same code, and the store holds at most one record for the URL.          *)
(***************************************************************************)
C3_SameURLSameCode ==
    \A u \in NormURLs :
        /\ Cardinality(returned[u]) <= 1
        /\ writer = 0 => Cardinality(RecordsFor(u)) <= 1

(***************************************************************************)
(* C4.  For a canonical URL whose Shorten requests never overlapped, all   *)
(* successful responses carry the same code, and once a code has been      *)
(* returned the store holds exactly one record for the URL.                *)
(***************************************************************************)
C4_SequentialDedup ==
    \A u \in NormURLs \ raced :
        /\ Cardinality(returned[u]) <= 1
        /\ Cardinality(RecordsFor(u)) <= 1
        /\ returned[u] # {} => Cardinality(RecordsFor(u)) = 1

\* two requests without custom code for one URL, one after the other, have
\* both been answered with the same code
C4_Witness ==
    \E p, q \in Procs :
        /\ p # q /\ Done(p) /\ Done(q)
        /\ alone[p] /\ alone[q]
        /\ req[p].kind = "shorten" /\ req[q].kind = "shorten"
        /\ req[p].CustomCode = "" /\ req[q].CustomCode = ""
        /\ resp[p].status = 201 /\ resp[q].status = 201
        /\ resp[p].original_url = resp[q].original_url
        /\ resp[p].original_url \notin raced
        /\ resp[p].short_code = resp[q].short_code
        /\ RecordsFor(resp[p].original_url) = {resp[p].short_code}

(***************************************************************************)
(* C5.  When Save finds its code in the primary index it returns the       *)
(* error and both indexes are exactly as before.                           *)
(***************************************************************************)
C5_SaveOnExistingCode ==
    [][\A p \in Procs :
          (pc[p] = "Save_urls" /\ pc'[p] # "Save_urls" /\ loc[p].shortCode \in DOMAIN urls)
              => /\ urls' = urls
                 /\ reverse' = reverse
                 /\ pc'[p] = "done"
                 /\ resp'[p].error = "short code already exists"]_vars

\* a direct Save of a stored code with another URL has returned the error
C5_Witness ==
    \E p \in Procs :
        /\ Done(p)
        /\ req[p].kind = "Save"
        /\ resp[p].error = "short code already exists"
        /\ resp[p].short_code \in DOMAIN urls
        /\ urls[resp[p].short_code].OriginalURL # resp[p].original_url

(***************************************************************************)
(* C6.  No step replaces an entry of the reverse index, and no step adds   *)
(* a record for a URL that already has a reverse entry.                    *)
(***************************************************************************)
C6_SaveKeepsReverseEntry ==
    [][\A u \in DOMAIN reverse :
          /\ reverse'[u] = reverse[u]
          /\ \A c \in DOMAIN urls' \ DOMAIN urls : urls'[c].OriginalURL # u]_vars

(***************************************************************************)
(* C7.  Clicks never decrease, and Clicks of a code is exactly the number  *)
(* of IncrementClicks calls that found the code and have returned.         *)
(***************************************************************************)
C7_ClickCounting ==
    [][/\ \A c \in DOMAIN urls : urls'[c].Clicks >= urls[c].Clicks
       /\ \A c \in DOMAIN urls' : urls'[c].Clicks = incremented'[c]]_vars

\* two overlapping calls for one code have both returned: Clicks is 2
C7_Witness ==
    \E p, q \in Procs :
        /\ p # q /\ Done(p) /\ Done(q)
        /\ ~alone[p] /\ ~alone[q]
        /\ req[p].kind = "IncrementClicks" /\ req[q].kind = "IncrementClicks"
        /\ resp[p].short_code = resp[q].short_code
        /\ resp[p].short_code \in DOMAIN urls
        /\ urls[resp[p].short_code].Clicks = 2

(***************************************************************************)
(* C8.  A GET of /c for a stored code c is answered with the redirect to   *)
(* the record's OriginalURL and adds exactly 1 to its Clicks; for a code   *)
(* that is not stored it is answered NotFound and the store is unchanged;  *)
(* when no request is in flight, Clicks of c is the number of redirects    *)
(* answered for c.  (The request is judged against the store as the        *)
(* goroutines can observe it: no other goroutine is inside a write.)       *)
(***************************************************************************)
C8_Resolve ==
    [][/\ \A p \in Procs :
            (/\ pc[p] # "done" /\ pc'[p] = "done"
             /\ req'[p].kind = "redirect" /\ req'[p].Path # "/"
             /\ writer \in {0, p})
                => LET c == TrimPrefix(req'[p].Path, "/") IN
                   IF c \in DOMAIN urls
                   THEN /\ resp'[p] = Redirect(urls[c].OriginalURL)
                        /\ urls' = [urls EXCEPT ![c].Clicks = @ + 1]
                        /\ reverse' = reverse
                   ELSE /\ resp'[p] = NotFound
                        /\ urls' = urls
                        /\ reverse' = reverse
       /\ Quiescent' => \A c \in DOMAIN urls' : urls'[c].Clicks = resolved'[c]]_vars

(***************************************************************************)
(* C9.  When the dedup lookup of a Shorten request with a custom code      *)
(* misses, the request is rejected with InvalidCode, the store unchanged,  *)
(* exactly when the code breaks the syntax rule; a code that keeps the     *)
(* rule goes on to the uniqueness check.                                   *)
(***************************************************************************)
C9_CustomCodeValidation ==
    [][\A p \in Procs :
          (/\ pc[p] = "GetByOriginalURL_cs" /\ pc'[p] # "GetByOriginalURL_cs"
           /\ req[p].CustomCode # ""
           /\ loc[p].normalized \notin DOMAIN reverse)
              => /\ urls' = urls
                 /\ reverse' = reverse
                 /\ IF CodeSyntaxOK[req[p].CustomCode]
                    THEN pc'[p] = "Exists" /\ loc'[p].shortCode = req[p].CustomCode
                    ELSE pc'[p] = "done" /\ resp'[p] = InvalidCode]_vars

\* a code of 21 characters has been rejected, one of 20 has been stored
C9_Witness ==
    \E p, q \in Procs :
        /\ Done(p) /\ Done(q)
        /\ req[p].kind = "shorten" /\ Len(req[p].CustomCode) = 21 /\ resp[p] = InvalidCode
        /\ req[q].kind = "shorten" /\ Len(req[q].CustomCode) = 20 /\ resp[q].status = 201
        /\ resp[q].short_code = req[q].CustomCode
        /\ req[q].CustomCode \in DOMAIN urls

(***************************************************************************)
(* C10.  A Shorten request that ran with no other request in flight, with  *)
(* a well-formed custom code held by the record of another URL and a URL   *)
(* that is not stored, is answered with the conflict, and both indexes are *)
(* unchanged.                                                              *)
(***************************************************************************)
C10_CustomCodeConflict ==
    [][\A p \in Procs :
          (/\ pc[p] # "done" /\ pc'[p] = "done"
           /\ alone[p]
           /\ req[p].kind = "shorten"
           /\ req[p].CustomCode # ""
           /\ CodeSyntaxOK[req[p].CustomCode]
           /\ req[p].CustomCode \in DOMAIN urls
           /\ urls[req[p].CustomCode].OriginalURL # loc[p].normalized
           /\ loc[p].normalized \notin DOMAIN reverse)
              => /\ resp'[p] = AlreadyExists
                 /\ urls' = urls
                 /\ reverse' = reverse]_vars

\* the second request for a stored custom code has been answered 409
C10_Witness ==
    \E p \in Procs :
        /\ Done(p)
        /\ alone[p]
        /\ req[p].kind = "shorten"
        /\ resp[p] = AlreadyExists
        /\ req[p].CustomCode \in DOMAIN urls
        /\ req[p].CustomCode = "x1y"
(***************************************************************************)
(* C11.  With every code the generator can produce in the store, each      *)
(* generate-and-check attempt of a request without custom code collides:   *)
(* attempts 1 to 9 are followed by the next attempt, the 10th by the       *)
(* response GenerationExhausted, and no attempt changes the store.  The    *)
(* first attempt is attempt 1, and GenerationExhausted is only ever the    *)
(* answer to a 10th attempt.                                               *)
(***************************************************************************)
GenerationExhausted == respondError("Failed to generate unique short code", 500)

C11_GenerationExhaustion ==
    [][\A p \in Procs :
          /\ (/\ pc[p] = "Exists_cs" /\ pc'[p] # "Exists_cs"
              /\ req[p].CustomCode = ""
              /\ GenCodes \subseteq DOMAIN urls)
                 => /\ urls' = urls
                    /\ reverse' = reverse
                    /\ IF loc[p].i + 1 < 10
                       THEN pc'[p] = "Exists" /\ loc'[p].i = loc[p].i + 1
                       ELSE /\ loc[p].i + 1 = 10
                            /\ pc'[p] = "done"
                            /\ resp'[p] = GenerationExhausted
          /\ (pc[p] = "GetByOriginalURL_cs" /\ pc'[p] = "Exists" /\ req[p].CustomCode = "")
                 => loc'[p].i = 0
          /\ (pc[p] # "done" /\ pc'[p] = "done" /\ resp'[p] = GenerationExhausted)
                 => pc[p] = "Exists_cs" /\ loc[p].i + 1 = 10]_vars

\* a request for a new URL has been answered GenerationExhausted with both
\* codes of the generator stored, and its URL has not been inserted
C11_Witness ==
    \E p \in Procs :
        /\ Done(p)
        /\ req[p].kind = "shorten" /\ req[p].CustomCode = ""
        /\ resp[p] = GenerationExhausted
        /\ GenCodes \subseteq DOMAIN urls
        /\ normalizedURL[raw[p]].url \notin DOMAIN reverse
        /\ RecordsFor(normalizedURL[raw[p]].url) = {}
(***************************************************************************)
(* C12.  When the dedup lookup of a Shorten request finds its normalized   *)
(* URL in the reverse index, the request is answered with the stored code  *)
(* and the store is unchanged, whatever custom code the request carries.   *)
(***************************************************************************)
C12_DedupFirst ==
    [][\A p \in Procs :
          (/\ pc[p] = "GetByOriginalURL_cs" /\ pc'[p] # "GetByOriginalURL_cs"
           /\ loc[p].normalized \in DOMAIN reverse)
              => /\ pc'[p] = "done"
                 /\ resp'[p] = respondSuccess(reverse[loc[p].normalized], loc[p].normalized)
                 /\ urls' = urls
                 /\ reverse' = reverse]_vars

\* a request with a malformed custom code for a stored URL has been answered
\* with the stored code, and the custom code is not in the store
C12_Witness ==
    \E p \in Procs :
        /\ Done(p)
        /\ req[p].kind = "shorten"
        /\ ~CodeSyntaxOK[req[p].CustomCode]
        /\ req[p].CustomCode # ""
        /\ resp[p].status = 201
        /\ resp[p].short_code # req[p].CustomCode
        /\ resp[p].short_code \in DOMAIN urls
        /\ req[p].CustomCode \notin DOMAIN urls
(***************************************************************************)
(* C13.  The records a List request emits, with their field values, are    *)
(* the content of the store at one instant.  The records are those GetAll  *)
(* returned, so the instant is one at which the store held exactly these   *)
(* records; Clicks only grow, so if any such instant fits, the last one    *)
(* does: the emitted values are the content at that instant.               *)
(***************************************************************************)
C13_ListSnapshot ==
    [][\A p \in Procs :
          (pc[p] = "Encode" /\ pc'[p] = "done")
              => \E content \in instant[p] :
                     resp'[p].urls =
                         [k \in 1..Len(loc[p].mappings) |-> content[loc[p].mappings[k]]]]_vars

(***************************************************************************)
(* C14.  The records of a List response are in creation order.             *)
(***************************************************************************)
C14_ListSortedByCreation ==
    \A p \in Procs :
        (Done(p) /\ req[p].kind = "list")
            => \A i, j \in 1..Len(resp[p].urls) :
                  i < j => resp[p].urls[i].CreatedAt < resp[p].urls[j].CreatedAt
(***************************************************************************)
(* C15.  Raw URLs that differ only in the letter case of the host, in a    *)
(* trailing slash on a non-root path or in an explicit default port        *)
(* normalize to the same string, and requests for them made one after the  *)
(* other are answered with the same code while one record is stored.       *)
(***************************************************************************)
\* the raw URLs of the requests, grouped: the members of a group differ only
\* in host case, trailing slash and default port
SameButForm ==
    {{"https://EXAMPLE.com/a/", "https://example.com/a", "https://example.com:443/a"},
     {"http://b.io:80", "http://b.io"},
     HostRawURLs}

C15_NormalizedVariantsShareCode ==
    \A g \in SameButForm :
        \A p, q \in Procs :
            (/\ Done(p) /\ Done(q)
             /\ raw[p] \in g /\ raw[q] \in g
             /\ resp[p].status = 201 /\ resp[q].status = 201)
                => /\ normalizedURL[raw[p]] = normalizedURL[raw[q]]
                   /\ resp[p].original_url = resp[q].original_url
                   /\ resp[p].short_code = resp[q].short_code
                   /\ RecordsFor(resp[p].original_url) = {resp[p].short_code}

(***************************************************************************)
(* C16.  A successful Shorten tells the caller whether the code was       *)
(* reused: the answer to a request served from the dedup lookup differs    *)
(* from the answer to a request that created the record.                   *)
(***************************************************************************)
C16_ReuseReported ==
    \A p, q \in Procs :
        (/\ Done(p) /\ Done(q)
         /\ origin[p] = "reused" /\ origin[q] = "created")
            => resp[p] # resp[q]
(***************************************************************************)
(* C17.  The uniqueness check of a code and its insertion are one atomic  *)
(* step: while a Shorten request is between its Exists check, which found  *)
(* code c absent, and its Save of c, no other request inserts c.           *)
(***************************************************************************)
C17_CheckAndInsertAtomic ==
    [][\A p \in Procs :
          (req[p].kind = "shorten" /\ pc[p] = "Save")
              => ~(/\ loc[p].shortCode \notin DOMAIN urls
                   /\ loc[p].shortCode \in DOMAIN urls')]_vars
(***************************************************************************)
(* C18.  A Shorten request without custom code that passed validation      *)
(* ends in one of three ways: with the code already stored for its URL,    *)
(* with the code it has just inserted, or with GenerationExhausted after   *)
(* its 10th colliding attempt.                                             *)
(***************************************************************************)
C18_PlainShortenOutcomes ==
    [][\A p \in Procs :
          (/\ req[p].kind = "shorten" /\ req[p].CustomCode = ""
           /\ pc[p] \notin {"idle", "done"} /\ pc'[p] = "done")
              => \/ /\ pc[p] = "GetByOriginalURL_cs"
                    /\ loc[p].normalized \in DOMAIN reverse
                    /\ resp'[p] = respondSuccess(reverse[loc[p].normalized], loc[p].normalized)
                 \/ /\ pc[p] = "Save_reverse"
                    /\ loc[p].shortCode \in DOMAIN urls
                    /\ urls[loc[p].shortCode].OriginalURL = loc[p].normalized
                    /\ resp'[p] = respondSuccess(loc[p].shortCode, loc[p].normalized)
                 \/ /\ pc[p] = "Exists_cs"
                    /\ loc[p].i + 1 = maxAttempts
                    /\ resp'[p] = GenerationExhausted]_vars

(***************************************************************************)
(* C19.  A Shorten request with a valid custom code for a URL that is not  *)
(* stored, ending while the code is stored for another URL, is answered    *)
(* with the conflict 409 "Custom code already exists", also when the code  *)
(* was inserted by a concurrent request.                                   *)
(***************************************************************************)
C19_CustomCodeRaceConflict ==
    [][\A p \in Procs :
          (/\ req[p].kind = "shorten" /\ req[p].CustomCode # ""
           /\ validShortCode[req[p].CustomCode]
           /\ pc[p] \notin {"idle", "done"} /\ pc'[p] = "done"
           /\ loc[p].normalized \notin DOMAIN reverse
           /\ req[p].CustomCode \in DOMAIN urls
           /\ urls[req[p].CustomCode].OriginalURL # loc[p].normalized)
              => resp'[p] = AlreadyExists]_vars
(***************************************************************************)
(* C20.  The dedup race: once two Shorten requests for one URL u have been *)
(* answered with different codes, the store holds a record for u under     *)
(* each of the codes, both codes resolve to u, and when no Save for u is   *)
(* in progress GetByOriginalURL(u) returns the code of the Save that       *)
(* completed last, the one of the record created last.                     *)
(***************************************************************************)
\* the code of the record for u that was created last
LastSaved(u) == CHOOSE c \in RecordsFor(u) :
                    \A d \in RecordsFor(u) : urls[d].CreatedAt <= urls[c].CreatedAt

C20_DedupRace ==
    \A u \in NormURLs :
        Cardinality(returned[u]) >= 2
            => /\ returned[u] \subseteq RecordsFor(u)
               /\ \A c \in returned[u] :
                     /\ Get(c).err = ""
                     /\ urls[Get(c).mapping].OriginalURL = u
               /\ (\A p \in Procs : ~(pc[p] = "Save_reverse" /\ loc[p].normalized = u))
                     => GetByOriginalURL(u) = [shortCode |-> LastSaved(u), exists |-> TRUE]

\* two concurrent requests for one new URL have both saved a code of their own
C20_Witness ==
    \E p, q \in Procs :
        /\ Done(p) /\ Done(q)
        /\ origin[p] = "created" /\ origin[q] = "created"
        /\ resp[p].original_url = resp[q].original_url
        /\ resp[p].short_code # resp[q].short_code
        /\ RecordsFor(resp[p].original_url) = {resp[p].short_code, resp[q].short_code}
        /\ urls[resp[p].short_code].CreatedAt < urls[resp[q].short_code].CreatedAt
        /\ GetByOriginalURL(resp[p].original_url).shortCode = resp[q].short_code
(***************************************************************************)
(* C21.  Whenever a Get, Exists, GetByOriginalURL or GetAll is inside its  *)
(* critical section, where it observes the maps, the URL of every record   *)
(* of the primary index has an entry in the reverse index and every entry  *)
(* of the reverse index names a code of the primary index.                 *)
(***************************************************************************)
\* goroutine p is inside the critical section of a read method
Reading(p) == pc[p] \in {"Get_cs", "Exists_cs", "GetByOriginalURL_cs", "GetAll_cs"}

\* goroutine p is inside the critical section of a write method
Writing(p) == pc[p] \in {"Save_urls", "Save_reverse", "IncrementClicks_read", "IncrementClicks_write"}

C21_IndexWritesTogether ==
    (\E p \in Procs : Reading(p))
        => /\ \A c \in DOMAIN urls : urls[c].OriginalURL \in DOMAIN reverse
           /\ \A u \in DOMAIN reverse : reverse[u] \in DOMAIN urls

\* a read method observes the store after the Save of a concurrent request
\* has written both maps
C21_Witness ==
    \E p, q \in Procs :
        /\ Reading(p) /\ ~alone[p]
        /\ Done(q) /\ origin[q] = "created"
        /\ resp[q].short_code \in DOMAIN urls
        /\ resp[q].original_url \in DOMAIN reverse
(***************************************************************************)
(* C22.  Records are read and written only under the store's lock: no      *)
(* request is reading the fields of a record, as the List handler does     *)
(* when it encodes the records GetAll returned and has not read yet, while *)
(* IncrementClicks of another request is inside its critical section on    *)
(* that record.                                                            *)
(***************************************************************************)
C22_RecordsReadUnderLock ==
    \A p, q \in Procs :
        ~(/\ pc[p] = "Encode"
          /\ pc[q] \in {"IncrementClicks_read", "IncrementClicks_write"}
          /\ \E k \in (Len(loc[p].encoded) + 1)..Len(loc[p].mappings) :
                loc[p].mappings[k] = loc[q].shortCode)
(***************************************************************************)
(* C23.  Lock discipline: while a Save or an IncrementClicks is inside its *)
(* critical section no other store operation is inside its own, and the    *)
(* goroutines inside critical sections are the holders of the lock.  Read  *)
(* methods do run inside their critical sections together (the witness).   *)
(***************************************************************************)
C23_LockDiscipline ==
    \A p \in Procs :
        /\ Writing(p) <=> writer = p
        /\ Reading(p) <=> p \in readers
        /\ Writing(p) => \A q \in Procs \ {p} : ~Writing(q) /\ ~Reading(q)

\* two read methods of different requests are inside their critical sections
C23_Witness ==
    \E p, q \in Procs :
        /\ p # q
        /\ Reading(p) /\ Reading(q)
        /\ readers = {p, q} /\ writer = 0
(***************************************************************************)
(* C24.  No store operation blocks for ever: under fair scheduling every   *)
(* call of Save, Get, GetByOriginalURL, Exists, GetAll and IncrementClicks *)
(* that has started returns (so no reachable state has a started           *)
(* operation that can never proceed): again and again the goroutine is     *)
(* outside the method.                                                     *)
(***************************************************************************)
\* the positions of goroutines inside each method of the store, from its
\* call to its return
Inside ==
    [Save             |-> {"Save", "Save_urls", "Save_reverse"},
     Get              |-> {"Get", "Get_cs"},
     GetByOriginalURL |-> {"GetByOriginalURL", "GetByOriginalURL_cs"},
     Exists           |-> {"Exists", "Exists_cs"},
     GetAll           |-> {"GetAll", "GetAll_cs"},
     IncrementClicks  |-> {"IncrementClicks", "IncrementClicks_read", "IncrementClicks_write"}]

C24_StoreOperationsReturn ==
    \A p \in Procs : \A op \in DOMAIN Inside :
        []<>(pc[p] \notin Inside[op])

\* a Save waits for the lock that a read method of another request holds
C24_Witness ==
    \E p, q \in Procs :
        /\ pc[p] = "Save" /\ ~CanLock
        /\ Reading(q)
(***************************************************************************)
(* C25.  Under fair scheduling every Shorten request ends with a terminal  *)
(* outcome, whatever the other requests do: a code (existing or new),      *)
(* InvalidCode, AlreadyExists (the 409 of the custom code check, or the    *)
(* store's "short code already exists" error of Save), or                  *)
(* GenerationExhausted; it generates at most 10 codes and calls Save at    *)
(* most once: the step that leaves Save ends the request.                  *)
(***************************************************************************)
\* handler.go:100-103: the error of Save, answered with 500
SaveFailed == respondError("short code already exists", 500)

TerminalOutcomes == {InvalidCode, AlreadyExists, GenerationExhausted, SaveFailed}

C25_ShortenTerminates ==
    /\ \A p \in Procs :
          []<>(req[p].kind = "shorten"
                 => /\ pc[p] = "done"
                    /\ resp[p].status = 201 \/ resp[p] \in TerminalOutcomes)
    /\ [][\A p \in Procs :
            req[p].kind = "shorten"
               => /\ loc'[p].i + 1 <= maxAttempts
                  /\ (pc[p] \in Inside.Save /\ pc'[p] \notin Inside.Save) => pc'[p] = "done"
                  /\ pc[p] = "done" => pc'[p] = "done"]_vars

\* a request next to another one has generated 10 codes and has ended with
\* GenerationExhausted
C25_Witness ==
    \E p \in Procs :
        /\ Done(p) /\ ~alone[p]
        /\ req[p].kind = "shorten"
        /\ resp[p] = GenerationExhausted
(***************************************************************************)
(* C26.  A Save(c, u) on an absent code c adds exactly the record          *)
(* [c, u, Clicks 0] to the primary index and then u -> c to the reverse    *)
(* index, reports success, and changes no other record or entry; between   *)
(* the two writes it holds the write lock and no other goroutine is inside *)
(* a critical section, so the two writes are one atomic step for every     *)
(* other operation.                                                        *)
(***************************************************************************)
C26_SaveOnAbsentCode ==
    [][\A p \in Procs :
          /\ (pc[p] = "Save_urls" /\ pc'[p] # "Save_urls" /\ loc[p].shortCode \notin DOMAIN urls)
                => /\ DOMAIN urls' = DOMAIN urls \cup {loc[p].shortCode}
                   /\ urls'[loc[p].shortCode] =
                          [ShortCode |-> loc[p].shortCode, OriginalURL |-> loc[p].normalized,
                           CreatedAt |-> now, Clicks |-> 0]
                   /\ \A d \in DOMAIN urls : urls'[d] = urls[d]
                   /\ reverse' = reverse
                   /\ pc'[p] = "Save_reverse" /\ writer' = p
          /\ pc[p] = "Save_reverse"
                => /\ writer = p /\ readers = {}
                   /\ \A q \in Procs \ {p} : ~Reading(q) /\ ~Writing(q)
                   /\ \A q \in Procs \ {p} : ~Reading(q)' /\ ~Writing(q)'
          /\ (pc[p] = "Save_reverse" /\ pc'[p] # "Save_reverse")
                => /\ urls' = urls
                   /\ DOMAIN reverse' = DOMAIN reverse \cup {loc[p].normalized}
                   /\ reverse'[loc[p].normalized] = loc[p].shortCode
                   /\ \A u \in DOMAIN reverse \ {loc[p].normalized} : reverse'[u] = reverse[u]
                   /\ pc'[p] = "done" /\ resp'[p].error = "" /\ writer' = 0]_vars

\* a Save on an absent code has returned; another record, with a click, is
\* as it was
C26_Witness ==
    \E p \in Procs : \E d \in DOMAIN urls :
        /\ Done(p) /\ req[p].kind = "Save" /\ resp[p].error = ""
        /\ resp[p].short_code \in DOMAIN urls
        /\ urls[resp[p].short_code].Clicks = 0
        /\ urls[resp[p].short_code].CreatedAt = now - 1
        /\ reverse[resp[p].original_url] = resp[p].short_code
        /\ d # resp[p].short_code /\ urls[d].Clicks = 1
(***************************************************************************)
(* C27.  IncrementClicks(c) for a code c that is not stored returns        *)
(* without an error and without writing: no record appears and both maps   *)
(* are as before.  For a stored code it adds 1 to the Clicks of that       *)
(* record and changes nothing else.                                        *)
(***************************************************************************)
C27_IncrementClicksFrame ==
    [][\A p \in Procs :
          /\ (pc[p] = "IncrementClicks_read" /\ pc'[p] # pc[p] /\ loc[p].shortCode \notin DOMAIN urls)
                => /\ urls' = urls /\ reverse' = reverse
                   /\ pc'[p] = "done" /\ resp'[p].error = "" /\ resp'[p].status \in {0, 301}
                   /\ writer' = 0
          /\ (pc[p] \in {"IncrementClicks", "IncrementClicks_read"} /\ pc'[p] # pc[p])
                => urls' = urls /\ reverse' = reverse
          /\ (pc[p] = "IncrementClicks_write" /\ pc'[p] # pc[p])
                => /\ DOMAIN urls' = DOMAIN urls
                   /\ urls'[loc[p].shortCode] =
                          [urls[loc[p].shortCode] EXCEPT !.Clicks = urls[loc[p].shortCode].Clicks + 1]
                   /\ \A d \in DOMAIN urls \ {loc[p].shortCode} : urls'[d] = urls[d]
                   /\ reverse' = reverse]_vars

\* IncrementClicks of a code that is not stored has returned next to a
\* stored record, which has no click
C27_Witness ==
    \E p \in Procs : \E d \in DOMAIN urls :
        /\ Done(p) /\ req[p].kind = "IncrementClicks"
        /\ resp[p].error = ""
        /\ resp[p].short_code \notin DOMAIN urls
        /\ urls[d].Clicks = 0
        /\ incremented[resp[p].short_code] = 0
(***************************************************************************)
(* C28.  A Shorten request that fails leaves the store as it found it: the *)
(* step that ends it with an error changes neither map, every record and   *)
(* every reverse entry present belongs to a request answered 201 (or to a  *)
(* Save that is between its two writes and will be), and no step of a      *)
(* Shorten request changes a Clicks value.                                 *)
(***************************************************************************)
C28_FailedShortenLeavesStore ==
    [][/\ \A p \in Procs :
             (/\ req[p].kind = "shorten"
              /\ pc[p] # "done" /\ pc'[p] = "done"
              /\ resp'[p].status # 201)
                 => /\ urls' = urls /\ reverse' = reverse
                    /\ pc[p] # "Save_reverse"
       /\ \A c \in DOMAIN urls' :
             \/ c \in returned'[urls'[c].OriginalURL]
             \/ \E q \in Procs : /\ pc'[q] = "Save_reverse"
                                  /\ loc'[q].shortCode = c
                                  /\ loc'[q].normalized = urls'[c].OriginalURL
       /\ \A u \in DOMAIN reverse' : reverse'[u] \in returned'[u]
       /\ \A c \in DOMAIN urls :
             urls'[c].Clicks # urls[c].Clicks
                 => \E q \in Procs : req[q].kind = "redirect" /\ pc[q] = "IncrementClicks_write"]_vars

\* a request has failed in Save, next to the request that saved the code:
\* the store holds that request's record and nothing else
C28_Witness ==
    \E p, q \in Procs :
        /\ Done(p) /\ req[p].kind = "shorten" /\ resp[p] = SaveFailed
        /\ Done(q) /\ origin[q] = "created"
        /\ DOMAIN urls = {resp[q].short_code}
        /\ DOMAIN reverse = {resp[q].original_url}
        /\ urls[resp[q].short_code].Clicks = 0
(***************************************************************************)
(* C29.  Every code that a successful Shorten request returned can be      *)
(* resolved: a GET of /<code> that is served after that answer, with no    *)
(* other request in flight, is answered with the redirect to the record's  *)
(* URL and counts a click.  This holds for every custom code that passes   *)
(* validation.                                                             *)
(***************************************************************************)
C29_ReturnedCodesResolve ==
    [][\A p \in Procs : \A u \in NormURLs :
          (/\ pc[p] # "done" /\ pc'[p] = "done"
           /\ req'[p].kind = "redirect" /\ alone'[p]
           /\ TrimPrefix(req'[p].Path, "/") \in returned[u])
              => /\ resp'[p] = Redirect(urls[TrimPrefix(req'[p].Path, "/")].OriginalURL)
                 /\ urls'[TrimPrefix(req'[p].Path, "/")].Clicks =
                        urls[TrimPrefix(req'[p].Path, "/")].Clicks + 1]_vars
(***************************************************************************)
(* C30.  A Shorten request that arrives after some Save for its URL has    *)
(* completed creates no record: none of its steps changes the store.       *)
(* Hence a URL has at most as many records as Shorten requests for it      *)
(* arrived before the first Save for it completed (counted here among the  *)
(* requests in flight or answered 201, each goroutine serving one).        *)
(***************************************************************************)
\* the URL of the Shorten request of goroutine p, in flight or answered 201
URLOf(p) == IF pc[p] = "done" THEN resp[p].original_url ELSE loc[p].normalized

C30_NoRecordAfterFirstSave ==
    [][/\ \A p \in Procs :
             (/\ req[p].kind = "shorten" /\ ~early[p]
              /\ pc[p] \notin {"idle", "done"} /\ pc'[p] # pc[p])
                 => /\ urls' = urls /\ reverse' = reverse
                    /\ pc[p] \in Inside.GetByOriginalURL
                    /\ pc'[p] = "done" => origin'[p] = "reused"
       /\ \A u \in NormURLs :
             Cardinality(RecordsFor(u)') <=
                 Cardinality({p \in Procs : early'[p] /\ URLOf(p)' = u})]_vars

\* a request that arrived after the Save for its URL has been answered with
\* the stored code; the URL has one record
C30_Witness ==
    \E p, q \in Procs :
        /\ Done(p) /\ req[p].kind = "shorten" /\ ~early[p] /\ origin[p] = "reused"
        /\ Done(q) /\ early[q] /\ origin[q] = "created"
        /\ resp[p].original_url = resp[q].original_url
        /\ RecordsFor(resp[p].original_url) = {resp[p].short_code}

(***************************************************************************)
(* C31: every reverse entry u -> c names a code c of the primary index      *)
(* whose record has OriginalURL u, and every record's ShortCode is the key *)
(* it is stored under, in every state, the dedup race included; every      *)
(* record's URL has a reverse entry in every state but the one inside the  *)
(* write lock between the two map writes of one Save.                      *)
(***************************************************************************)
C31_WeakIndexInvariant ==
    /\ \A u \in DOMAIN reverse :
          /\ reverse[u] \in DOMAIN urls
          /\ urls[reverse[u]].OriginalURL = u
    /\ \A c \in DOMAIN urls : urls[c].ShortCode = c
    /\ (\A p \in Procs : pc[p] # "Save_reverse")
          => \A c \in DOMAIN urls : urls[c].OriginalURL \in DOMAIN reverse

\* after the dedup race: two records of one URL, one of them off the reverse index
C31_Witness ==
    /\ writer = 0
    /\ \E c1, c2 \in DOMAIN urls :
          /\ c1 # c2
          /\ urls[c1].OriginalURL = urls[c2].OriginalURL
          /\ reverse[urls[c1].OriginalURL] = c2

\* the symbols of base62Charset
Base62 == {Char(base62Charset, i) : i \in 1..Len(base62Charset)}

\* what a code is, for every code of the model: a custom code that passed
\* isValidShortCode, a string of 6 symbols of base62Charset, a string that
\* satisfies the custom-code syntax rule
CodeForm == [code \in AllCodes |->
               [custom    |-> code \in CustomCodes /\ isValidShortCode(code),
                generated |-> Len(code) = 6 /\ \A i \in 1..Len(code) : Char(code, i) \in Base62,
                syntax    |-> Len(code) \in 3..20 /\ \A i \in 1..Len(code) : Char(code, i) \in CodeAlphabet]]

(***************************************************************************)
(* C32: in every reachable state each code of the primary index is a       *)
(* custom code that passed isValidShortCode or a generated code of exactly *)
(* 6 symbols of the 62-symbol alphabet, and so satisfies the custom-code   *)
(* syntax rule: 3 to 20 characters over [A-Za-z0-9_-].                     *)
(***************************************************************************)
C32_StoredCodesWellFormed ==
    \A code \in DOMAIN urls :
        /\ code \in AllCodes
        /\ CodeForm[code].custom \/ CodeForm[code].generated
        /\ CodeForm[code].syntax

\* a custom code of the longest accepted length and a generated code are stored
C32_Witness ==
    /\ \E code \in DOMAIN urls : code \in CustomCodes /\ Len(code) = 20
    /\ \E code \in DOMAIN urls : code \in GenCodes /\ code \notin CustomCodes

(***************************************************************************)
(* C33: NormalizeURL is idempotent: when NormalizeURL(x) succeeds,         *)
(* NormalizeURL of its result succeeds too and returns the same string,    *)
(* for hosts with a default port (bracketed IPv6 hosts included) and for   *)
(* paths made of slashes only.                                             *)
(***************************************************************************)
C33_NormalizeURLIdempotent ==
    (call.fn = "NormalizeURL" /\ call.n = 2)
        => (~call.last.err /\ call.last.url = call.first.url)

(***************************************************************************)
(* C34: the code of a generation attempt does not depend on the URL being  *)
(* shortened or on earlier attempts: with the same results of rand.Int,    *)
(* GenerateShortCode returns the same code for every URL, and position i   *)
(* of the code is the symbol of base62Charset the i-th draw selects, so    *)
(* every URL and every attempt has the same set of possible codes, all     *)
(* strings of 6 symbols of the alphabet, and the code is not a function of *)
(* the URL.                                                                *)
(***************************************************************************)
C34_CodeIndependentOfURL ==
    (call.fn = "GenerateShortCode" /\ call.n = 1) =>
        /\ \A src \in GenSrcs \cup RawURLs :
              GenerateShortCode(src, call.length, call.draws) = call.code
        /\ \A i \in 1..Len(call.code) :
              call.draws[i] # RandErr => Char(call.code, i) = Char(base62Charset, call.draws[i] + 1)
        /\ call.length = 6 => Len(call.code) = 6

\* GenerateShortCode(url, 6) returned a code spelled by its draws, first and
\* last symbol of the alphabet included
C34_Witness ==
    /\ call.fn = "GenerateShortCode"
    /\ call.n = 1
    /\ call.u = "https://example.com/a"
    /\ call.length = 6
    /\ call.code = "9azAZ0"

\* the code GenerateShortCode(url, 6) returns when every rand.Int fails
FallbackCode == "aaaaaa"

\* GenerateShortCode returned: length symbols (6 when length <= 0) of the
\* alphabet, with 'a' where rand.Int failed
GeneratedAsSpecified ==
    (call.fn = "GenerateShortCode" /\ call.n = 1) =>
        /\ Len(call.code) = IF call.length <= 0 THEN 6 ELSE call.length
        /\ \A i \in 1..Len(call.code) :
              /\ Char(call.code, i) \in Base62
              /\ call.draws[i] = RandErr => Char(call.code, i) = "a"

\* with a source that always fails: every attempt of every request gets the
\* same code, only the first attempt of a request can reach Save, and a
\* finished request has failed exactly when the code belongs to another URL
FailedSourceStates ==
    (source = "failed" /\ call.fn = "none") =>
        \A p \in Procs :
            /\ pc[p] \in {"Exists", "Exists_cs", "Save", "Save_urls", "Save_reverse"}
                  => loc[p].shortCode = FallbackCode
            /\ pc[p] \in {"Save", "Save_urls"}
                  => loc[p].i = 0 /\ FallbackCode \notin DOMAIN urls
            /\ (pc[p] \in {"Exists", "Exists_cs"} /\ loc[p].i > 0)
                  => /\ FallbackCode \in DOMAIN urls
                     /\ urls[FallbackCode].OriginalURL # loc[p].normalized
            /\ (Done(p) /\ validURL[raw[p]] /\ ~normalizedURL[raw[p]].err)
                  => (resp[p] = GenerationExhausted
                        <=> /\ FallbackCode \in DOMAIN urls
                            /\ urls[FallbackCode].OriginalURL # normalizedURL[raw[p]].url)

\* with a source that always fails: an attempt that finds the code taken is
\* followed by the next attempt, and the request fails at the tenth attempt
FailedSourceSteps ==
    (source = "failed" /\ call.fn = "none") =>
        \A p \in Procs :
            (pc[p] = "Exists_cs" /\ pc'[p] # "Exists_cs" /\ Exists(loc[p].shortCode)) =>
                IF loc[p].i < maxAttempts - 1
                THEN /\ pc'[p] = "Exists"
                     /\ loc'[p].i = loc[p].i + 1
                     /\ loc'[p].shortCode = FallbackCode
                ELSE /\ loc[p].i = maxAttempts - 1
                     /\ pc'[p] = "done"
                     /\ resp'[p] = GenerationExhausted

(***************************************************************************)
(* C35: GenerateShortCode returns exactly length symbols (6 when length is *)
(* not positive) of the 62-symbol alphabet and reports no error: where the *)
(* random source fails, the position becomes 'a'.  With a source that      *)
(* always fails every call returns the same code, so the first URL is      *)
(* stored under it and a request for another URL finds it taken at each of *)
(* its 10 attempts and ends with "Failed to generate unique short code".   *)
(***************************************************************************)
C35_GenerateShortCodeFallback ==
    /\ [](GeneratedAsSpecified /\ FailedSourceStates)
    /\ [][FailedSourceSteps]_vars

\* the source always fails, one URL holds the code, and the request for a
\* second URL has ended after its tenth attempt
C35_Witness ==
    /\ source = "failed"
    /\ FallbackCode \in DOMAIN urls
    /\ \E p \in Procs :
          /\ Done(p)
          /\ resp[p] = GenerationExhausted
          /\ urls[FallbackCode].OriginalURL # normalizedURL[raw[p]].url


====
